---- MODULE Spec2Model ----
(***************************************************************************)
(* Model of run_op_ssh.py: generation of an SSH client configuration and   *)
(* key-file set from the SSH-key items of a password manager.              *)
(*                                                                         *)
(* Text is modelled as a sequence of one-character strings, so that        *)
(* splitting, stripping, case folding and pattern matching are computed    *)
(* character by character as the Python code computes them.  Fixed         *)
(* literals of the generated configuration text are single tokens.         *)
(***************************************************************************)
EXTENDS Integers, Sequences, FiniteSets, TLC

VARIABLES
    pc,          \* position of the program (main / make_config / __init__)
    exitStatus,  \* -1 while running, else the process exit status
    error,       \* "none" or the name of the unhandled exception
    opFound,     \* environment: get_op_exe() finds an executable
    wsl,         \* environment: is_wsl()
    dirExists,   \* filesystem: a directory exists at get_ssh_path()
    dirFiles,    \* filesystem: file name -> content inside that directory
    archives,    \* filesystem: timestamp -> archived directory content
    fs0,         \* the filesystem as it was when the run started
    lastInput,   \* the last line read by the confirmation prompt
    listing,     \* output of `op item list`: sequence of item ids
    li,          \* index of the next listed item to filter
    key_ids,     \* main(): ids kept by the title filter
    fetched,     \* ids for which `op item get` has been issued, in order
    json,        \* the two-field structure handed to SSHConfigEntry
    result,      \* outcome of the last SSHConfigEntry construction
    entries,     \* main(): entries constructed so far
    si           \* make_config(): index of the next entry to serialize

vars == <<pc, exitStatus, error, opFound, wsl, dirExists, dirFiles, archives,
          fs0, lastInput, listing, li, key_ids, fetched, json, result,
          entries, si>>

---------------------------------------------------------------------------
(* Bounds *)

MaxLines == 2
MaxItems == 2
MaxTime == 2

---------------------------------------------------------------------------
(* Characters and text *)

UpperLetters == <<"A","B","C","D","E","F","G","H","I","J","K","L","M",
                  "N","O","P","Q","R","S","T","U","V","W","X","Y","Z">>

LowerLetters == <<"a","b","c","d","e","f","g","h","i","j","k","l","m",
                  "n","o","p","q","r","s","t","u","v","w","x","y","z">>

Digits == {"0","1","2","3","4","5","6","7","8","9"}

Range(s) == {s[i] : i \in 1..Len(s)}

\* \s of the re module
IsSpace(c) == c \in {" ", "\t", "\n", "\r", "\f"}

\* \w of the re module
IsWord(c) == c \in Range(UpperLetters) \cup Range(LowerLetters) \cup Digits \cup {"_"}

\* str.lower() on one character
LowerChar(c) ==
    IF \E i \in 1..26 : UpperLetters[i] = c
    THEN LowerLetters[CHOOSE i \in 1..26 : UpperLetters[i] = c]
    ELSE c

\* a plausible slip: the answer is not lower-cased
LowerOmitted(s) == s

\* str.lower()
Lower(s) == [i \in 1..Len(s) |-> LowerChar(s[i])]

\* str.strip()
Strip(s) ==
    IF \A i \in 1..Len(s) : IsSpace(s[i])
    THEN <<>>
    ELSE LET first == CHOOSE i \in 1..Len(s) :
                          /\ ~IsSpace(s[i])
                          /\ \A j \in 1..(i-1) : IsSpace(s[j])
             last == CHOOSE i \in 1..Len(s) :
                          /\ ~IsSpace(s[i])
                          /\ \A j \in (i+1)..Len(s) : IsSpace(s[j])
         IN SubSeq(s, first, last)

\* str.replace(old, new) for a one-character old
Replace(s, old, new) == [i \in 1..Len(s) |-> IF s[i] = old THEN new ELSE s[i]]

\* index of the first occurrence of character c in s, 0 when absent
IndexOf(s, c) ==
    IF \E i \in 1..Len(s) : s[i] = c
    THEN CHOOSE i \in 1..Len(s) : s[i] = c /\ \A j \in 1..(i-1) : s[j] # c
    ELSE 0

\* str.split(sep) for a one-character sep: always at least one piece
RECURSIVE Split(_, _)
Split(s, sep) ==
    LET i == IndexOf(s, sep)
    IN IF i = 0 THEN <<s>>
       ELSE <<SubSeq(s, 1, i-1)>> \o Split(SubSeq(s, i+1, Len(s)), sep)

\* str.split(' ', 1): one piece when there is no space, else two
SplitFirst(s) ==
    LET i == IndexOf(s, " ")
    IN IF i = 0 THEN <<s>>
       ELSE <<SubSeq(s, 1, i-1), SubSeq(s, i+1, Len(s))>>

\* sep.join(pieces)
RECURSIVE Join(_, _)
Join(pieces, sep) ==
    IF pieces = <<>> THEN <<>>
    ELSE IF Len(pieces) = 1 THEN pieces[1]
    ELSE pieces[1] \o sep \o Join(Tail(pieces), sep)

\* Python's None, distinct from every text
None == <<"None">>

---------------------------------------------------------------------------
(* SSHConfigEntry *)

\* attribute and file names
N_key      == <<"k","e","y">>
N_keyname  == <<"k","e","y","n","a","m","e">>
N_options  == <<"o","p","t","i","o","n","s">>
N_user     == <<"u","s","e","r">>
N_aliases  == <<"a","l","i","a","s","e","s">>
N_url      == <<"u","r","l">>
N_serialize == <<"s","e","r","i","a","l","i","z","e">>
N_make_key == <<"_","m","a","k","e","_","k","e","y">>
N_config   == <<"c","o","n","f","i","g">>
PubSuffix  == <<".","p","u","b">>

\* one alternative-free repetition (?:\w+\s*)* : word and space characters
\* only, and if non-empty starting with a word character
SegMatches(seg) ==
    /\ \A i \in 1..Len(seg) : IsWord(seg[i]) \/ IsSpace(seg[i])
    /\ seg # <<>> => IsWord(seg[1])

\* .*$ : no newline, except one that ends the text
TailMatches(t) ==
    LET body == IF t # <<>> /\ t[Len(t)] = "\n" THEN SubSeq(t, 1, Len(t)-1) ELSE t
    IN \A i \in 1..Len(body) : body[i] # "\n"

\* re.match(r'^op:\/\/(?:\w+\s*)*?\/((?:\w+\s*)*)/.*$', ref): neither
\* repetition can contain "/", so the first "/" after the scheme ends the
\* vault segment and the next one ends the captured segment
ReMatch(ref) ==
    LET rest  == SubSeq(ref, 6, Len(ref))
        i     == IndexOf(rest, "/")
        rest2 == SubSeq(rest, i+1, Len(rest))
        j     == IndexOf(rest2, "/")
    IN IF /\ Len(ref) >= 5
          /\ SubSeq(ref, 1, 5) = <<"o","p",":","/","/">>
          /\ i # 0
          /\ SegMatches(SubSeq(rest, 1, i-1))
          /\ j # 0
          /\ SegMatches(SubSeq(rest2, 1, j-1))
          /\ TailMatches(SubSeq(rest2, j+1, Len(rest2)))
       THEN [matched |-> TRUE, group1 |-> SubSeq(rest2, 1, j-1)]
       ELSE [matched |-> FALSE, group1 |-> None]

\* setattr(self, name, value)
SetAttr(attrs, name, value) ==
    [n \in DOMAIN attrs \cup {name} |-> IF n = name THEN value ELSE attrs[n]]

NoAttrs == [n \in {} |-> None]

Raised(exc) == [ok |-> FALSE, error |-> exc, attrs |-> NoAttrs]

\* the loop over the parameter lines: every line is unpacked into exactly
\* two pieces, which fails for a line without a space
RECURSIVE SetParams(_, _)
SetParams(attrs, lines) ==
    IF lines = <<>> THEN [ok |-> TRUE, error |-> "none", attrs |-> attrs]
    ELSE LET parts == SplitFirst(Head(lines))
         IN IF Len(parts) # 2 THEN Raised("ValueError")
            ELSE SetParams(SetAttr(attrs, parts[1], parts[2]), Tail(lines))

\* a plausible slip: testing for the empty text instead of None
UrlMissingEmptyTest(attrs) == attrs[N_url] = <<>>

\* `if self.url == None`
UrlMissing(attrs) == attrs[N_url] = None

\* SSHConfigEntry.__init__
Construct(j) ==
    LET m == ReMatch(j[1].reference)
    IN IF ~m.matched THEN Raised("AttributeError")  \* None.group(1)
       ELSE
        LET init == (N_key :> j[1].value) @@ (N_keyname :> m.group1) @@
                    (N_options :> None) @@ (N_user :> None) @@
                    (N_aliases :> None) @@ (N_url :> None)
            set  == SetParams(init, Split(j[2].value, "\n"))
        IN IF ~set.ok THEN set
           ELSE IF UrlMissing(set.attrs) THEN Raised("ValueError")
           ELSE LET a  == set.attrs
                    kn == IF a[N_keyname] = None THEN a[N_url] ELSE a[N_keyname]
                IN [ok |-> TRUE, error |-> "none",
                    attrs |-> SetAttr(a, N_keyname, Replace(kn, " ", "_"))]

\* truth value of an attribute in `if self.x`
Truthy(v) == v # None /\ v # <<>>

\* os.path.join(a, b)
PathJoin(a, b) ==
    IF b # <<>> /\ b[1] = "/" THEN b
    ELSE IF a = <<>> \/ a[Len(a)] = "/" THEN a \o b
    ELSE a \o <<"/">> \o b

\* name of the key file inside the directory (_make_key)
KeyFileName(e) == e[N_keyname] \o PubSuffix

\* the option lines of a stanza
RECURSIVE OptionLines(_)
OptionLines(opts) ==
    IF opts = <<>> THEN <<>>
    ELSE <<"\t">> \o Head(opts) \o <<"\n">> \o OptionLines(Tail(opts))

\* the text returned by SSHConfigEntry.serialize
Stanza(e) ==
    <<"Host ">> \o e[N_url] \o <<" ">>
        \o (IF Truthy(e[N_aliases]) THEN Replace(e[N_aliases], ",", " ") ELSE <<>>)
        \o <<"\n">>
    \o <<"\tHostName ">> \o e[N_url] \o <<"\n">>
    \o <<"\tIdentityFile \"">>
        \o PathJoin(PathJoin(<<"%","d">>, <<".","s","s","h">>), KeyFileName(e))
        \o <<"\"\n">>
    \o <<"\tIdentitiesOnly yes\n">>
    \o (IF Truthy(e[N_user]) THEN <<"\tUser ">> \o e[N_user] \o <<"\n">> ELSE <<>>)
    \o (IF Truthy(e[N_options]) THEN OptionLines(Split(e[N_options], ",")) ELSE <<>>)

---------------------------------------------------------------------------
(* Inputs: parameter lines, references and key texts *)

L_url          == <<"u","r","l"," ","h">>
L_url2         == <<"u","r","l"," ","g">>
L_urlTrail     == <<"u","r","l"," ","h"," ">>
L_urlEmpty     == <<"u","r","l"," ">>
L_urlBare      == <<"u","r","l">>
L_user         == <<"u","s","e","r"," ","u">>
L_aliases      == <<"a","l","i","a","s","e","s"," ","a",",","b">>
L_options      == <<"o","p","t","i","o","n","s"," ","A"," ","b",",","C">>
L_key          == <<"k","e","y"," ","X">>
L_keyname      == <<"k","e","y","n","a","m","e"," ","n"," ","m">>
L_keynameSlash == <<"k","e","y","n","a","m","e"," ","a","/","b">>
L_port         == <<"p","o","r","t"," ","2","2">>
L_serialize    == <<"s","e","r","i","a","l","i","z","e"," ","x">>
L_junk         == <<"j","u","n","k">>
L_empty        == <<>>

ParamLines == {L_url, L_url2, L_urlTrail, L_urlEmpty, L_urlBare, L_user, L_aliases, L_options, L_key, L_keyname, L_keynameSlash, L_port, L_serialize, L_junk, L_empty}

R_title   == <<"o","p",":","/","/","V","/","E","x"," ","H","/","f">>
R_other   == <<"o","p",":","/","/","W","/","E","x"," ","H","/","f","/","g">>
R_hyphen  == <<"o","p",":","/","/","V","/","m","y","-","s","/","f">>
R_bad     == <<"b","a","d">>
R_empty   == <<"o","p",":","/","/","V","/","/","f">>
R_tab     == <<"o","p",":","/","/","V","/","a","\t","b","/","f">>

References == {R_title, R_other, R_hyphen, R_bad, R_empty, R_tab}

KeyText == <<"K">>

\* all sequences over S of length 1..n
RECURSIVE SeqsUpTo(_, _)
SeqsUpTo(S, n) ==
    IF n = 1 THEN {<<x>> : x \in S}
    ELSE LET shorter == SeqsUpTo(S, n-1)
         IN shorter \cup {Append(q, x) : q \in shorter, x \in S}

\* the parameter blobs: 1..MaxLines lines joined by newlines
Blobs == {Join(ls, <<"\n">>) : ls \in SeqsUpTo(ParamLines, MaxLines)}

\* the structure `op item get` returns: the public key field with its
\* secret reference, then the params field
Fields(key, ref, blob) == <<[value |-> key, reference |-> ref], [value |-> blob]>>

EntryInputs == {Fields(KeyText, r, b) : r \in References, b \in Blobs}

\* the items of the password manager: id -> title and fetched fields
Vault ==
       (1 :> [title |-> <<"E","x"," ","H">>,
           fields |-> Fields(<<"K","1">>,
                      <<"o","p",":","/","/","V","/","E","x"," ","H","/","f">>,
                      <<"u","r","l"," ","h","\n","u","s","e","r"," ","u","\n","a","l","i","a","s","e","s"," ","a",",","b">>)])
    @@ (2 :> [title |-> <<"M","y"," ","S","i","g","n","i","n","g"," ","K","e","y">>,
           fields |-> Fields(<<"K","2">>,
                      <<"o","p",":","/","/","V","/","M","y"," ","S","i","g","n","i","n","g"," ","K","e","y","/","f">>,
                      <<"u","r","l"," ","s">>)])
    @@ (3 :> [title |-> <<"S","I","G","N","I","N","G"," ","x">>,
           fields |-> Fields(<<"K","3">>,
                      <<"o","p",":","/","/","V","/","S","I","G","N","I","N","G"," ","x","/","f">>,
                      <<"u","s","e","r"," ","u">>)])
    @@ (4 :> [title |-> <<"E","x"," ","H">>,
           fields |-> Fields(<<"K","4">>,
                      <<"o","p",":","/","/","W","/","E","x"," ","H","/","f">>,
                      <<"u","r","l"," ","g","\n","o","p","t","i","o","n","s"," ","A"," ","b",",","C">>)])
    @@ (5 :> [title |-> <<"n","o","u","r","l">>,
           fields |-> Fields(<<"K","5">>,
                      <<"o","p",":","/","/","V","/","n","o","u","r","l","/","f">>,
                      <<"u","s","e","r"," ","u">>)])
    @@ (6 :> [title |-> <<"m","y","-","s">>,
           fields |-> Fields(<<"K","6">>,
                      <<"o","p",":","/","/","V","/","m","y","-","s","/","f">>,
                      <<"u","r","l"," ","h">>)])
    @@ (7 :> [title |-> <<"s","i","g","n"," ","i","n">>,
           fields |-> Fields(<<"K","7">>,
                      <<"o","p",":","/","/","V","/","s","i","g","n"," ","i","n","/","f">>,
                      <<"u","r","l"," ","i","\n","k","e","y"," ","X">>)])
    @@ (8 :> [title |-> <<"s","l">>,
           fields |-> Fields(<<"K","8">>,
                      <<"o","p",":","/","/","V","/","s","l","/","f">>,
                      <<"u","r","l"," ","h","\n","k","e","y","n","a","m","e"," ","a","/","b">>)])

ItemIds == DOMAIN Vault

\* `op item list`: up to MaxItems distinct items, in any order
Listings ==
    {<<>>} \cup {l \in SeqsUpTo(ItemIds, MaxItems) :
                    \A i, k \in 1..Len(l) : i # k => l[i] # l[k]}

\* lines typed at the confirmation prompt
PromptInputs == {<<"y">>, <<"Y">>, <<" ","Y","\t">>, <<>>, <<" ">>, <<"n">>, <<" ","N"," ">>,
                 <<"y","e","s">>, <<"n","o">>, <<"y"," ","n">>}

\* what the directory may hold before the run
OldDirs ==
    { (N_config :> <<"old config">>) @@ (<<"E","x","_","H",".","p","u","b">> :> <<"old key">>),
      (<<"i","d">> :> <<"old id">>) }

NoFiles == [n \in {} |-> <<>>]

\* backup archives that may already lie next to the directory
OldArchives == { [t \in {} |-> NoFiles], (1 :> (N_config :> <<"older config">>)) }

Timestamps == 1..MaxTime

---------------------------------------------------------------------------
(* The run: main() and make_config() *)

Filesystem == [dirExists |-> dirExists, dirFiles |-> dirFiles, archives |-> archives]

Pending == [ok |-> FALSE, error |-> "pending", attrs |-> NoAttrs]

NoJson == Fields(<<>>, <<>>, <<>>)

Init ==
    /\ pc = "start"
    /\ exitStatus = -1
    /\ error = "none"
    /\ opFound \in BOOLEAN
    /\ wsl \in BOOLEAN
    /\ dirExists \in BOOLEAN
    /\ dirFiles \in (IF dirExists THEN OldDirs ELSE {NoFiles})
    /\ archives \in OldArchives
    /\ fs0 = Filesystem
    /\ lastInput = None
    /\ listing \in Listings
    /\ li = 1
    /\ key_ids = <<>>
    /\ fetched = <<>>
    /\ json = NoJson
    /\ result = Pending
    /\ entries = <<>>
    /\ si = 1

\* a plausible slip: the search without re.IGNORECASE
ReSearchCaseSensitive(pat, text) ==
    \E i \in 1..(Len(text) - Len(pat) + 1) :
        \A k \in 1..Len(pat) : text[i+k-1] = pat[k]

\* re.search(pat, text, re.IGNORECASE) for a literal pattern
ReSearchIgnoreCase(pat, text) ==
    \E i \in 1..(Len(text) - Len(pat) + 1) :
        \A k \in 1..Len(pat) : LowerChar(text[i+k-1]) = LowerChar(pat[k])

SigningPattern == <<"s","i","g","n","i","n","g">>

\* main(): the tool is looked up, and the program exits with status 1
\* when it is not installed
LocateTool ==
    /\ pc = "start"
    /\ IF opFound
       THEN pc' = "check_path" /\ UNCHANGED exitStatus
       ELSE pc' = "exited" /\ exitStatus' = 1
    /\ UNCHANGED <<error, opFound, wsl, dirExists, dirFiles, archives, fs0,
                   lastInput, listing, li, key_ids, fetched, json, result,
                   entries, si>>

\* main(): the prompt is entered only when the directory exists
CheckPath ==
    /\ pc = "check_path"
    /\ pc' = IF dirExists THEN "prompt" ELSE "list"
    /\ UNCHANGED <<exitStatus, error, opFound, wsl, dirExists, dirFiles,
                   archives, fs0, lastInput, listing, li, key_ids, fetched,
                   json, result, entries, si>>

\* main(): one pass of the confirmation loop
Prompt ==
    /\ pc = "prompt"
    /\ \E inp \in PromptInputs :
        /\ lastInput' = inp
        /\ LET answer == Strip(Lower(inp))
           IN IF answer = <<"y">> \/ answer = <<>>
              THEN pc' = "list" /\ UNCHANGED exitStatus
              ELSE IF answer = <<"n">>
              THEN pc' = "exited" /\ exitStatus' = 0
              ELSE pc' = "prompt" /\ UNCHANGED exitStatus
    /\ UNCHANGED <<error, opFound, wsl, dirExists, dirFiles, archives, fs0,
                   listing, li, key_ids, fetched, json, result, entries, si>>

\* main(): one pass of the loop over the listed items
FilterItem ==
    /\ pc = "list"
    /\ li <= Len(listing)
    /\ key_ids' = IF ReSearchIgnoreCase(SigningPattern, Vault[listing[li]].title)
                  THEN key_ids
                  ELSE Append(key_ids, listing[li])
    /\ li' = li + 1
    /\ UNCHANGED <<pc, exitStatus, error, opFound, wsl, dirExists, dirFiles,
                   archives, fs0, lastInput, listing, fetched, json, result,
                   entries, si>>

FilterDone ==
    /\ pc = "list"
    /\ li > Len(listing)
    /\ pc' = "fetch"
    /\ UNCHANGED <<exitStatus, error, opFound, wsl, dirExists, dirFiles,
                   archives, fs0, lastInput, listing, li, key_ids, fetched,
                   json, result, entries, si>>

\* main(): one pass of the loop over key_ids: the item is fetched and
\* parsed; an exception of the constructor is not caught
FetchEntry ==
    /\ pc = "fetch"
    /\ Len(entries) < Len(key_ids)
    /\ LET id == key_ids[Len(entries) + 1]
           r  == Construct(Vault[id].fields)
       IN /\ fetched' = Append(fetched, id)
          /\ json' = Vault[id].fields
          /\ result' = r
          /\ IF r.ok
             THEN /\ entries' = Append(entries, r.attrs)
                  /\ UNCHANGED <<pc, exitStatus, error>>
             ELSE /\ pc' = "crashed"
                  /\ exitStatus' = 1
                  /\ error' = r.error
                  /\ UNCHANGED entries
    /\ UNCHANGED <<opFound, wsl, dirExists, dirFiles, archives, fs0,
                   lastInput, listing, li, key_ids, si>>

\* a plausible slip: make_config is reached while items remain to be parsed
FetchDoneEarly ==
    /\ pc = "fetch"
    /\ Len(entries) = Len(key_ids) \/ Len(entries) >= 1
    /\ pc' = "make_config"
    /\ UNCHANGED <<exitStatus, error, opFound, wsl, dirExists, dirFiles,
                   archives, fs0, lastInput, listing, li, key_ids, fetched,
                   json, result, entries, si>>

FetchDone ==
    /\ pc = "fetch"
    /\ Len(entries) = Len(key_ids)
    /\ pc' = "make_config"
    /\ UNCHANGED <<exitStatus, error, opFound, wsl, dirExists, dirFiles,
                   archives, fs0, lastInput, listing, li, key_ids, fetched,
                   json, result, entries, si>>

\* a plausible slip: the directory is removed without the archive being made
MakeArchiveSkipped ==
    /\ pc = "make_config"
    /\ dirExists
    /\ pc' = "rmtree"
    /\ UNCHANGED <<exitStatus, error, opFound, wsl, dirExists, dirFiles,
                   archives, fs0, lastInput, listing, li, key_ids, fetched,
                   json, result, entries, si>>

\* make_config(): the existing directory is archived under a timestamped
\* name next to it; an archive of the same name is overwritten
MakeArchive ==
    /\ pc = "make_config"
    /\ dirExists
    /\ \E t \in Timestamps :
         archives' = [u \in DOMAIN archives \cup {t} |->
                        IF u = t THEN dirFiles ELSE archives[u]]
    /\ pc' = "rmtree"
    /\ UNCHANGED <<exitStatus, error, opFound, wsl, dirExists, dirFiles, fs0,
                   lastInput, listing, li, key_ids, fetched, json, result,
                   entries, si>>

\* make_config(): shutil.rmtree(path)
Rmtree ==
    /\ pc = "rmtree"
    /\ dirExists' = FALSE
    /\ dirFiles' = NoFiles
    /\ pc' = "mkdir"
    /\ UNCHANGED <<exitStatus, error, opFound, wsl, archives, fs0, lastInput,
                   listing, li, key_ids, fetched, json, result, entries, si>>

\* make_config(): nothing to back up
NoBackup ==
    /\ pc = "make_config"
    /\ ~dirExists
    /\ pc' = "mkdir"
    /\ UNCHANGED <<exitStatus, error, opFound, wsl, dirExists, dirFiles,
                   archives, fs0, lastInput, listing, li, key_ids, fetched,
                   json, result, entries, si>>

\* make_config(): os.mkdir(path) fails on an existing directory
Mkdir ==
    /\ pc = "mkdir"
    /\ IF dirExists
       THEN /\ pc' = "crashed"
            /\ exitStatus' = 1
            /\ error' = "FileExistsError"
            /\ UNCHANGED dirExists
       ELSE /\ pc' = "write_header"
            /\ dirExists' = TRUE
            /\ UNCHANGED <<exitStatus, error>>
    /\ UNCHANGED <<opFound, wsl, dirFiles, archives, fs0, lastInput, listing,
                   li, key_ids, fetched, json, result, entries, si>>

\* the two header lines (the backquotes of the literal written as quotes)
HeaderText ==
    <<"# This file was automatically generated by a Chezmoi script. Changes will be overwritten if 'chezmoi apply' or 'chezmoi update' is ran.\n",
      "# You can find the script somewhere in the directory opened with 'chezmoi cd'.\n\n">>

AgentStanza == <<"Host *\n\tIdentityAgent ~/.1password/agent.sock\n">>

\* open(name, 'w') followed by write(text)
WriteFile(files, name, text) ==
    [n \in DOMAIN files \cup {name} |-> IF n = name THEN text ELSE files[n]]

\* make_config(): the config file is created with its header and, outside
\* WSL, the stanza of the agent
WriteHeader ==
    /\ pc = "write_header"
    /\ dirFiles' = WriteFile(dirFiles, N_config,
                             HeaderText \o (IF wsl THEN <<>> ELSE AgentStanza))
    /\ si' = 1
    /\ pc' = "serialize"
    /\ UNCHANGED <<exitStatus, error, opFound, wsl, dirExists, archives, fs0,
                   lastInput, listing, li, key_ids, fetched, json, result,
                   entries>>

\* the exception entry.serialize(path) raises, or "none": an instance
\* attribute set from a parameter line hides the method of that name, and
\* the key file cannot be opened below a directory that does not exist
SerializeError(e) ==
    IF N_serialize \in DOMAIN e THEN "TypeError"
    ELSE IF N_make_key \in DOMAIN e THEN "TypeError"
    ELSE IF IndexOf(KeyFileName(e), "/") # 0 THEN "FileNotFoundError"
    ELSE "none"

\* make_config(): one pass of the loop over the entries: a blank line,
\* then the key file is written and the stanza appended
SerializeEntry ==
    /\ pc = "serialize"
    /\ si <= Len(entries)
    /\ LET e       == entries[si]
           blank   == WriteFile(dirFiles, N_config, dirFiles[N_config] \o <<"\n">>)
           withKey == WriteFile(blank, KeyFileName(e), e[N_key])
       IN IF SerializeError(e) # "none"
          THEN /\ dirFiles' = blank
               /\ pc' = "crashed"
               /\ exitStatus' = 1
               /\ error' = SerializeError(e)
               /\ UNCHANGED si
          ELSE /\ dirFiles' = WriteFile(withKey, N_config, blank[N_config] \o Stanza(e))
               /\ si' = si + 1
               /\ UNCHANGED <<pc, exitStatus, error>>
    /\ UNCHANGED <<opFound, wsl, dirExists, archives, fs0, lastInput, listing,
                   li, key_ids, fetched, json, result, entries>>

\* main() returns
Finish ==
    /\ pc = "serialize"
    /\ si > Len(entries)
    /\ pc' = "done"
    /\ exitStatus' = 0
    /\ UNCHANGED <<error, opFound, wsl, dirExists, dirFiles, archives, fs0,
                   lastInput, listing, li, key_ids, fetched, json, result,
                   entries, si>>

Next ==
    \/ LocateTool
    \/ CheckPath
    \/ Prompt
    \/ FilterItem
    \/ FilterDone
    \/ FetchEntry
    \/ FetchDone
    \/ MakeArchive
    \/ Rmtree
    \/ NoBackup
    \/ Mkdir
    \/ WriteHeader
    \/ SerializeEntry
    \/ Finish

Spec == Init /\ [][Next]_vars

---------------------------------------------------------------------------
(* The constructor alone, on every combination of reference and blob *)

InitEntry ==
    /\ pc = "init_entry"
    /\ exitStatus = -1
    /\ error = "none"
    /\ opFound = TRUE
    /\ wsl = FALSE
    /\ dirExists = FALSE
    /\ dirFiles = NoFiles
    /\ archives = [t \in {} |-> NoFiles]
    /\ fs0 = Filesystem
    /\ lastInput = None
    /\ listing = <<>>
    /\ li = 1
    /\ key_ids = <<>>
    /\ fetched = <<>>
    /\ json \in EntryInputs
    /\ result = Pending
    /\ entries = <<>>
    /\ si = 1

\* entry = SSHConfigEntry(json)
ConstructEntry ==
    /\ pc = "init_entry"
    /\ result' = Construct(json)
    /\ IF result'.ok
       THEN pc' = "constructed" /\ UNCHANGED error
       ELSE pc' = "raised" /\ error' = result'.error
    /\ UNCHANGED <<exitStatus, opFound, wsl, dirExists, dirFiles, archives,
                   fs0, lastInput, listing, li, key_ids, fetched, json,
                   entries, si>>

NextEntry == ConstructEntry

SpecEntry == InitEntry /\ [][NextEntry]_vars


---------------------------------------------------------------------------
(* Properties of the constructor (SpecEntry) *)

Constructed == pc = "constructed"
Raising == pc = "raised"
Blob == json[2].value
BlobLines == Split(Blob, "\n")

\* a line that gives the url field: "url", a space, and the value
IsUrlLine(l) == Len(l) >= 4 /\ SubSeq(l, 1, 4) = <<"u","r","l"," ">>
UrlValue(l) == SubSeq(l, 5, Len(l))
HasUrlLine == \E i \in 1..Len(BlobLines) : IsUrlLine(BlobLines[i])

NoTrailingSpace(t) == t = <<>> \/ ~IsSpace(t[Len(t)])

\* C1: whenever the blob contains a url line, construction succeeds and the
\* host is the text of a url line after its first space, without trailing
\* whitespace, whatever the other lines are (stated for the references the
\* pattern matches, so that only the blob decides).
C1_HostIsUrlValue ==
    (pc # "init_entry" /\ HasUrlLine /\ ReMatch(json[1].reference).matched) =>
        /\ Constructed
        /\ result.ok
        /\ \E i \in 1..Len(BlobLines) :
              IsUrlLine(BlobLines[i]) /\ result.attrs[N_url] = UrlValue(BlobLines[i])
        /\ NoTrailingSpace(result.attrs[N_url])

\* C2: a reference that matches the pattern gives the captured segment with
\* spaces replaced by underscores as key name; for a reference that does
\* not match, construction succeeds (given a url) and the key name is the
\* host with spaces replaced by underscores.
C2_KeyNameFromReference ==
    LET m == ReMatch(json[1].reference)
    IN /\ (Constructed /\ m.matched) =>
              result.attrs[N_keyname] = Replace(m.group1, " ", "_")
       /\ (pc # "init_entry" /\ ~m.matched /\ HasUrlLine) =>
              /\ Constructed
              /\ result.attrs[N_keyname] = Replace(result.attrs[N_url], " ", "_")

\* C3: every constructed record has a non-empty host and a non-empty key
\* name without whitespace.
C3_RecordInvariant ==
    Constructed =>
        /\ result.attrs[N_url] # <<>>
        /\ result.attrs[N_keyname] # <<>>
        /\ \A i \in 1..Len(result.attrs[N_keyname]) :
              ~IsSpace(result.attrs[N_keyname][i])

\* C4: for a blob without a url line construction raises an error and no
\* record, not even a partial one, results, whatever else the blob sets.
C4_NoUrlRaises ==
    (pc # "init_entry" /\ ~HasUrlLine) =>
        /\ Raising
        /\ ~result.ok
        /\ error \in {"ValueError", "AttributeError"}
        /\ result.attrs = NoAttrs

\* a blob that sets another field but no url has been rejected by the
\* check of the url itself
C4_Witness ==
    /\ Raising
    /\ Blob = L_user
    /\ ReMatch(json[1].reference).matched
    /\ error = "ValueError"

RecognizedNames == {N_options, N_user, N_aliases, N_url}

\* a well-formed line whose field name is not a recognized one
IsUnrecognizedLine(l) ==
    LET parts == SplitFirst(l)
    IN Len(parts) = 2 /\ parts[1] \notin RecognizedNames

RECURSIVE DropUnrecognized(_)
DropUnrecognized(ls) ==
    IF ls = <<>> THEN <<>>
    ELSE IF IsUnrecognizedLine(Head(ls)) THEN DropUnrecognized(Tail(ls))
    ELSE <<Head(ls)>> \o DropUnrecognized(Tail(ls))

\* what an entry puts on disk: the key file's name and content, and the stanza
Output(r) ==
    IF ~r.ok THEN <<"raised">>
    ELSE IF SerializeError(r.attrs) # "none" THEN <<"raised">>
    ELSE <<KeyFileName(r.attrs), r.attrs[N_key], Stanza(r.attrs)>>

\* C9: lines with an unrecognized field name have no effect on the output:
\* the key file and the stanza are those of the blob without these lines.
C9_UnrecognizedLineIgnored ==
    LET kept == DropUnrecognized(BlobLines)
    IN (pc # "init_entry" /\ kept # <<>>) =>
          Output(result) =
              Output(Construct(Fields(json[1].value, json[1].reference,
                                      Join(kept, <<"\n">>))))

---------------------------------------------------------------------------
(* Properties of the run (Spec) *)

InMakeConfig == pc \in {"make_config", "rmtree", "mkdir", "write_header", "serialize", "done"}
BeforeMakeConfig == pc \in {"start", "check_path", "prompt", "list", "fetch", "exited"}

IsPrefix(p, q) == Len(p) <= Len(q) /\ SubSeq(q, 1, Len(p)) = p

IsInfix(p, q) ==
    \E i \in 0..(Len(q) - Len(p)) : SubSeq(q, i+1, i+Len(p)) = p

OnlySpaceAround(inp, cs) ==
    \E i \in 1..Len(inp) :
        inp[i] \in cs /\ \A k \in 1..Len(inp) : k # i => IsSpace(inp[k])
IsYes(inp) == (\A k \in 1..Len(inp) : IsSpace(inp[k])) \/ OnlySpaceAround(inp, {"y", "Y"})
IsNo(inp) == OnlySpaceAround(inp, {"n", "N"})

\* C6: with the directory present nothing on the filesystem changes before
\* the prompt has read y or an empty line (any case, surrounding whitespace
\* ignored); n in any case exits with status 0 and no change; any other
\* input repeats the prompt and changes nothing.
C6_ConfirmBeforeMutation ==
    [][/\ pc = "prompt" =>
            /\ Filesystem' = Filesystem
            /\ IsYes(lastInput') => pc' = "list" /\ exitStatus' = -1
            /\ IsNo(lastInput') => pc' = "exited" /\ exitStatus' = 0
            /\ (~IsYes(lastInput') /\ ~IsNo(lastInput')) =>
                  /\ pc' = "prompt"
                  /\ UNCHANGED <<exitStatus, error, opFound, wsl, dirExists,
                                 dirFiles, archives, fs0, listing, li, key_ids,
                                 fetched, json, result, entries, si>>
       /\ (fs0.dirExists /\ Filesystem' # Filesystem) =>
            lastInput # None /\ IsYes(lastInput)
      ]_vars

\* an upper-case N between spaces has ended the run with status 0 and the
\* filesystem as it was
C6_Witness ==
    /\ pc = "exited"
    /\ exitStatus = 0
    /\ lastInput = <<" ","N"," ">>
    /\ fs0.dirExists
    /\ Filesystem = fs0

\* "signing" in any letter case, stated on the raw title
SigningLower == <<"s","i","g","n","i","n","g">>
SigningUpper == <<"S","I","G","N","I","N","G">>
HasSigning(title) ==
    \E i \in 0..(Len(title) - 7) :
        \A k \in 1..7 : title[i+k] \in {SigningLower[k], SigningUpper[k]}

NonSigning(id) == ~HasSigning(Vault[id].title)

\* C7: no item whose title contains "signing" in any letter case is ever
\* fetched, and neither its key file nor its stanza is in the output; the
\* other listed items are fetched in list order, all of them once the fetch
\* phase has completed.
C7_SigningExcluded ==
    /\ \A i \in 1..Len(listing) :
          HasSigning(Vault[listing[i]].title) =>
              /\ listing[i] \notin Range(fetched)
              /\ listing[i] \notin Range(key_ids)
              /\ LET r == Construct(Vault[listing[i]].fields)
                 IN r.ok =>
                       /\ KeyFileName(r.attrs) \notin DOMAIN dirFiles
                       /\ N_config \in DOMAIN dirFiles =>
                             ~IsInfix(Stanza(r.attrs), dirFiles[N_config])
    /\ IsPrefix(fetched, SelectSeq(listing, NonSigning))
    /\ InMakeConfig => fetched = SelectSeq(listing, NonSigning)

\* a completed run whose listing held a signing item and another one
C7_Witness ==
    /\ pc = "done"
    /\ \E i \in 1..Len(listing) : HasSigning(Vault[listing[i]].title)
    /\ Len(fetched) >= 1
    /\ Len(fetched) < Len(listing)

\* C8: after the run every entry has its own key file <keyName>.pub holding
\* its public key, so that there are as many key files as entries, also
\* when two entries share a key name.
C8_OneKeyFilePerEntry ==
    pc = "done" =>
        /\ \A i \in 1..Len(entries) :
              /\ KeyFileName(entries[i]) \in DOMAIN dirFiles
              /\ dirFiles[KeyFileName(entries[i])] = entries[i][N_key]
        /\ Cardinality(DOMAIN dirFiles \ {N_config}) = Len(entries)

\* C10: every entry is fetched and parsed before make_config starts; when a
\* construction fails the run aborts with the filesystem as it was before
\* the run.
C10_ParseFailureLeavesFilesystem ==
    /\ InMakeConfig => Len(entries) = Len(key_ids) /\ fetched = key_ids
    /\ BeforeMakeConfig => Filesystem = fs0
    /\ (pc = "crashed" /\ ~result.ok /\ result.error # "pending") =>
          /\ Filesystem = fs0
          /\ error = result.error
          /\ exitStatus = 1

\* a run over an existing directory that parsed one entry and aborted on
\* the next
C10_Witness ==
    /\ pc = "crashed"
    /\ ~result.ok
    /\ error = "ValueError"
    /\ Len(entries) >= 1
    /\ fs0.dirExists

====
